---- MODULE Spec2Model ----
(***************************************************************************)
(* Batch analysis orchestrator of GenAI-ResumeAnalyzer:                    *)
(*   ResumeParser.process_batch / process_file / analyze_single_resume     *)
(*   (src/models/resume_parser.py), FileProcessor (src/utils/              *)
(*   file_processor.py), the settings in src/config.py and the caller      *)
(*   run_batch_analysis (src/pages/resume_analyzer.py).                    *)
(*                                                                         *)
(* process_batch is a coroutine on an asyncio event loop.  Its tasks are   *)
(* created by asyncio.gather in chunk order and put on the loop's FIFO     *)
(* ready queue; process_file and analyze_single_resume contain no await    *)
(* that suspends (extract_text_from_file and generate_content are plain    *)
(* blocking calls, and Semaphore.acquire returns at once when a permit is  *)
(* free), so a task that has started runs to its end before the loop       *)
(* picks the next one.  The steps of a task are separate actions so that   *)
(* the positions inside a pipeline are visible; Runnable states the        *)
(* scheduling.                                                             *)
(***************************************************************************)
EXTENDS Integers, Sequences, FiniteSets, TLC

\* ---------------------------------------------------------------- bounds
MaxFiles == 3
\* how many things go wrong in one behaviour: failures of the environment
\* (disk, text extraction, API) and answers of the model other than the
\* record it was asked for
MaxFaults == 1
\* the calls of run_batch_analysis other sessions make during one behaviour
MaxOtherRuns == 1

\* ------------------------------------------------------- program constants
BATCH_SIZE_DEFAULT == 10
MAX_CONCURRENT_REQUESTS_DEFAULT == 5
RATE_LIMIT_DELAY_DEFAULT == 1
MAX_FILE_SIZE_MB == 10
MiB == 1024 * 1024
SUPPORTED_FORMATS == {".pdf", ".docx"}

Absent == "<absent>"

\* ERROR_MESSAGES and the messages built in the except clauses
MsgUnsupported == "Unsupported file format. Please upload PDF or DOCX files."
MsgTooLarge == "File size exceeds maximum limit of 10MB"
MsgNoFile == "No file provided"
MsgValid == "File is valid"
MsgSave == "Error saving uploaded file: <cause>"
MsgExtract == "Error analyzing resume: Error extracting text from file: <cause>"
MsgApi == "Error analyzing resume: <api cause>"
MsgParse == "Failed to parse AI response as JSON: <decode error>"
MsgKeyMeta == "Error analyzing resume: 'analysis_metadata'"
MsgNoneAttr == "'NoneType' object has no attribute 'name'"

\* ------------------------------------------------------------------ inputs
\* an uploaded file object (name, size)
File(n, s) == [none |-> FALSE, name |-> n, size |-> s]

\* None, the missing file validate_file tests for first ("No file provided")
NoneFile == [none |-> TRUE, name |-> Absent, size |-> 0]

\* the items of the list given to process_batch(files: List) or
\* analyze_resumes_sync(files: List), which take any list: a valid PDF of
\* exactly the maximum size, a DOCX (upper-case extension) of 15 MB, a text
\* file, and the missing file the validation of every item provides for
UploadedFiles ==
    {File("cv.pdf", MAX_FILE_SIZE_MB * MiB), File("CV.DOCX", 15 * MiB),
     File("notes.txt", MiB), NoneFile}

\* os.path.splitext(name)[1].lower()
SplitExtLower(n) ==
    CASE n = "cv.pdf" -> ".pdf"
      [] n = "CV.DOCX" -> ".docx"
      [] n = "notes.txt" -> ".txt"
      [] OTHER -> ""

\* the texts the model may answer with (response.text)
RespFull == "  {name.., analysis_metadata:{file_name:'model.pdf',..}}\n"
RespNoMeta == "  {name.., skills..}\n"
RespGarbage == "  Sorry, here is the JSON you asked for \n"
RespWithError == "  {error:'unreadable scan', analysis_metadata:{..}}\n"
RespNullScores == "  {name.., analysis_metadata:{..}, experience_scores:null}\n"
RespNullEducation == "  {name.., analysis_metadata:{..}, education:null}\n"
Responses == {RespFull, RespNoMeta, RespGarbage, RespWithError,
              RespNullScores, RespNullEducation}

\* str.strip()
Strip(t) ==
    CASE t = RespFull -> "{name.., analysis_metadata:{file_name:'model.pdf',..}}"
      [] t = RespNoMeta -> "{name.., skills..}"
      [] t = RespGarbage -> "Sorry, here is the JSON you asked for"
      [] t = RespWithError -> "{error:'unreadable scan', analysis_metadata:{..}}"
      [] t = RespNullScores ->
             "{name.., analysis_metadata:{..}, experience_scores:null}"
      [] t = RespNullEducation -> "{name.., analysis_metadata:{..}, education:null}"
      [] OTHER -> t

\* json.loads: decoded |-> FALSE is JSONDecodeError; meta is the value of
\* analysis_metadata.file_name in the decoded object, Absent when the object
\* has no analysis_metadata block or the block has no file_name; error is
\* the value of a top-level "error" key of the decoded object;
\* experience_scores and education say what the object holds under these
\* keys: "object", "null", or Absent when the key is not there
JsonLoads(s) ==
    CASE s = "{name.., analysis_metadata:{file_name:'model.pdf',..}}" ->
             [decoded |-> TRUE, hasMeta |-> TRUE, meta |-> "model.pdf",
              error |-> Absent, experience_scores |-> "object",
              education |-> "object"]
      [] s = "{name.., skills..}" ->
             [decoded |-> TRUE, hasMeta |-> FALSE, meta |-> Absent,
              error |-> Absent, experience_scores |-> Absent,
              education |-> Absent]
      [] s = "{error:'unreadable scan', analysis_metadata:{..}}" ->
             [decoded |-> TRUE, hasMeta |-> TRUE, meta |-> Absent,
              error |-> "unreadable scan", experience_scores |-> Absent,
              education |-> Absent]
      [] s = "{name.., analysis_metadata:{..}, experience_scores:null}" ->
             [decoded |-> TRUE, hasMeta |-> TRUE, meta |-> Absent,
              error |-> Absent, experience_scores |-> "null",
              education |-> "object"]
      [] s = "{name.., analysis_metadata:{..}, education:null}" ->
             [decoded |-> TRUE, hasMeta |-> TRUE, meta |-> Absent,
              error |-> Absent, experience_scores |-> "object",
              education |-> "null"]
      [] OTHER -> [decoded |-> FALSE, hasMeta |-> FALSE, meta |-> Absent,
                   error |-> Absent, experience_scores |-> Absent,
                   education |-> Absent]

\* ---------------------------------------------------------------- outcomes
\* a result dict: the keys the code sets or reads; Absent marks a key that is
\* not there
ErrorResult(msg, n) ==
    [error |-> msg, file_name |-> n, raw_response |-> Absent,
     meta_file_name |-> Absent, file_info |-> Absent,
     experience_scores |-> Absent, education |-> Absent]

\* the parse-error dict built from the stripped text
ParseErrorResultStripped(n, raw) ==
    [ErrorResult(MsgParse, n) EXCEPT !.raw_response = Strip(raw)]

\* lines 91-96 with response bound: raw_response is response.text
ParseErrorResult(n, raw) ==
    [ErrorResult(MsgParse, n) EXCEPT !.raw_response = raw]

\* lines 91-96 with response unbound (the JSONDecodeError came out of
\* generate_content): raw_response is the literal "No response"
ParseErrorNoResponse(n) ==
    [ErrorResult(MsgParse, n) EXCEPT !.raw_response = "No response"]

\* the parsed record with the file name the model wrote left in place
SuccessResultKeepsModelName(n) ==
    [error |-> Absent, file_name |-> Absent, raw_response |-> Absent,
     meta_file_name |-> "model.pdf", file_info |-> Absent,
     experience_scores |-> "object", education |-> "object"]

\* the decoded object after lines 86-87 overwrote analysis_metadata.file_name
SuccessResult(n) ==
    [error |-> Absent, file_name |-> Absent, raw_response |-> Absent,
     meta_file_name |-> n, file_info |-> Absent,
     experience_scores |-> "object", education |-> "object"]

NoResult == [exc |-> FALSE, msg |-> Absent, val |-> ErrorResult(Absent, Absent)]
Returned(v) == [exc |-> FALSE, msg |-> Absent, val |-> v]
Raised(m) == [exc |-> TRUE, msg |-> m, val |-> ErrorResult(Absent, Absent)]


\* ------------------------------------------------------------------- state
VARIABLES
    faults,     \* the failures of the environment so far
    apiKey,     \* whether config.GEMINI_API_KEY is set
    ui,         \* what run_batch_analysis has put on the page after the batch
    files,      \* the uploaded files handed to process_batch (a list)
    config,     \* the module globals of config.py that a run reads
    args,       \* the settings the run was started with
    callback,   \* whether a progress_callback was passed
    pc,         \* position of the process_batch coroutine
    i,          \* loop variable of "for i in range(0, len(files), BATCH_SIZE)"
    step,       \* step of the range object, fixed when the loop starts
    batch,      \* the current slice, as 1-based positions in files
    results,    \* the list process_batch returns
    sem,        \* value of the asyncio.Semaphore of the run
    tpc,        \* per file position: position of its process_file task
    tres,       \* per file position: what its task settled with
    tresp,      \* per file position: response.text of the model call
    temps,      \* per file position: temporary files that exist on disk
    ops,        \* per file position: counts of save / extract / generate calls
    progress,   \* the values passed to progress_callback, in order
    sleeps,     \* the delays passed to asyncio.sleep, in order
    chunks,     \* the chunks launched so far: offset, slice, sleeps taken before
    others      \* the run_batch_analysis calls of other sessions: how many were
                \* made, and how far the one under way is in lines 106-108

vars == <<faults, apiKey, ui, files, config, args, callback, pc, i, step, batch, results, sem,
          tpc, tres, tresp, temps, ops, progress, sleeps, chunks, others>>

Min(a, b) == IF a <= b THEN a ELSE b

Settings(bs, mc, rl) ==
    [BATCH_SIZE |-> bs, MAX_CONCURRENT_REQUESTS |-> mc, RATE_LIMIT_DELAY |-> rl]

DefaultConfig ==
    Settings(BATCH_SIZE_DEFAULT, MAX_CONCURRENT_REQUESTS_DEFAULT,
             RATE_LIMIT_DELAY_DEFAULT)

Positions == 1..Len(files)

NoOps == [save |-> 0, extract |-> 0, generate |-> 0]

\* no other session has called run_batch_analysis
NoOthers == [runs |-> 0, written |-> 0, set |-> DefaultConfig]

\* the page before anything is displayed
NoStats == [total_files |-> 0, successful_analyses |-> 0, failed_analyses |-> 0,
            success_rate |-> [num |-> 0, den |-> 1], has_averages |-> FALSE,
            raised |-> FALSE]
NoExport == [total_resumes |-> 0, successful_analyses |-> 0, failed_analyses |-> 0]
NoUi == [state |-> "none", metrics |-> FALSE, stats |-> NoStats, rows |-> <<>>,
         exported |-> FALSE, export |-> NoExport]

FileLists == UNION {[1..n -> UploadedFiles] : n \in 0..MaxFiles}

Init ==
    /\ faults = 0
    /\ apiKey \in BOOLEAN
    /\ ui = NoUi
    /\ files \in FileLists
    /\ config = DefaultConfig
    /\ args = DefaultConfig
    /\ callback = FALSE
    /\ pc = "idle"
    /\ i = 0
    /\ step = 0
    /\ batch = <<>>
    /\ results = <<>>
    /\ sem = 0
    /\ tpc = [f \in Positions |-> "new"]
    /\ tres = [f \in Positions |-> NoResult]
    /\ tresp = [f \in Positions |-> Absent]
    /\ temps = [f \in Positions |-> 0]
    /\ ops = [f \in Positions |-> NoOps]
    /\ progress = <<>>
    /\ sleeps = <<>>
    /\ chunks = <<>>
    /\ others = NoOthers

\* ------------------------------------------------------------ FileProcessor
\* validate_file without its size check
validate_file_NoSizeCheck(file) ==
    IF file.none THEN <<FALSE, MsgNoFile>>
    ELSE IF SplitExtLower(file.name) \notin SUPPORTED_FORMATS
         THEN <<FALSE, MsgUnsupported>>
    ELSE <<TRUE, MsgValid>>

\* FileProcessor.validate_file: <<is_valid, msg>>
validate_file(file) ==
    IF file.none THEN <<FALSE, MsgNoFile>>
    ELSE IF SplitExtLower(file.name) \notin SUPPORTED_FORMATS
         THEN <<FALSE, MsgUnsupported>>
    ELSE IF file.size > MAX_FILE_SIZE_MB * MiB
         THEN <<FALSE, MsgTooLarge>>
    ELSE <<TRUE, MsgValid>>

\* FileProcessor.get_file_info: the name it records
get_file_info(file) == file.name

\* ------------------------------------------------------------ process_batch
\* the slice taken one position too far to the right: files[i + 1:i + n]
SliceFromNext(i0, n) ==
    [k \in 1..(IF i0 + 1 < Len(files) /\ n > 1
                THEN Min(i0 + n, Len(files)) - (i0 + 1) ELSE 0)
        |-> i0 + 1 + k]

\* files[i:i + n] as positions of files
Slice(i0, n) ==
    [k \in 1..(IF i0 < Len(files) THEN Min(i0 + n, Len(files)) - i0 ELSE 0)
        |-> i0 + k]

\* progress of the chunk alone: min(len(batch) / len(files) * 100, 100)
ProgressOfChunkOnly(i0, blen, total) ==
    [num |-> Min(blen * 100, 100 * total), den |-> total]

\* progress taken before the chunk is counted: min(i / len(files) * 100, 100)
ProgressBeforeChunk(i0, blen, total) ==
    [num |-> Min(i0 * 100, 100 * total), den |-> total]

\* min((i + len(batch)) / len(files) * 100, 100), as the fraction num/den
ProgressValue(i0, blen, total) ==
    [num |-> Min((i0 + blen) * 100, 100 * total), den |-> total]

\* the test written against the chunk: i + config.BATCH_SIZE < len(batch)
MoreToComeInBatch(i0) == i0 + config.BATCH_SIZE < Len(batch)

\* the test written with <=
MoreToComeInclusive(i0) == i0 + config.BATCH_SIZE <= Len(files)

\* "if i + config.BATCH_SIZE < len(files)": the run sleeps after this chunk
MoreToCome(i0) == i0 + config.BATCH_SIZE < Len(files)

\* a failure of the environment is tried while the bound allows it
CanFail == faults < MaxFaults
Fails(failed) == faults' = IF failed THEN faults + 1 ELSE faults

\* asyncio.Semaphore(config.MAX_CONCURRENT_REQUESTS)
NewSemaphore(cfg) == cfg.MAX_CONCURRENT_REQUESTS

\* the body of one loop iteration up to "await asyncio.gather(*tasks)":
\* the slice is taken with the BATCH_SIZE in force now, one task is created
\* per file of the slice and queued on the loop
LaunchChunk(i0, cfg, slept) ==
    /\ i' = i0
    /\ batch' = Slice(i0, cfg.BATCH_SIZE)
    /\ tpc' = [f \in Positions |->
                 IF \E k \in 1..Len(batch') : batch'[k] = f THEN "ready"
                 ELSE tpc[f]]
    /\ tres' = [f \in Positions |->
                 IF \E k \in 1..Len(batch') : batch'[k] = f THEN NoResult
                 ELSE tres[f]]
    /\ chunks' = Append(chunks, [at |-> i0, items |-> batch', slept |-> slept])
    /\ pc' = "gather"

\* process_batch, lines 105-106: the empty result list and the semaphore,
\* made with the MAX_CONCURRENT_REQUESTS the module holds at this moment
EnterBatch ==
    /\ results' = <<>>
    /\ sem' = NewSemaphore(config)
    /\ sleeps' = <<>>
    /\ pc' = "range"

\* the for statement entering the loop body whatever the length of the list
BeginBatchAlwaysLaunches ==
    /\ pc = "range"
    /\ step' = config.BATCH_SIZE
    /\ i' = 0
    /\ pc' = "slice"
    /\ UNCHANGED <<faults, apiKey, ui, files, config, args, callback, batch, results, sem,
                   tpc, tres, tresp, temps, ops, progress, sleeps, chunks, others>>

\* line 132: range(0, len(files), config.BATCH_SIZE) is built with the
\* BATCH_SIZE the module holds at this moment, and the for statement takes
\* its first value; process_batch returns the empty list when there is none
BeginBatch ==
    /\ pc = "range"
    /\ step' = config.BATCH_SIZE
    /\ i' = 0
    /\ pc' = IF Len(files) = 0 THEN "returned" ELSE "slice"
    /\ UNCHANGED <<faults, apiKey, ui, files, config, args, callback, batch, results, sem,
                   tpc, tres, tresp, temps, ops, progress, sleeps, chunks, others>>

\* lines 133-139 of the first iteration: the slice is taken with the
\* BATCH_SIZE the module holds now, which is read again after line 132
FirstSlice ==
    /\ pc = "slice"
    /\ LaunchChunk(0, config, 0)
    /\ UNCHANGED <<faults, apiKey, ui, files, config, args, callback, step, results, sem,
                   tresp, temps, ops, progress, sleeps, others>>

\* ResumeParser.__init__ without the test of the key
ParserConstructedUnchecked(key) == TRUE

\* ResumeParser.__init__: raises ValueError when config.GEMINI_API_KEY is
\* not set; TRUE when the parser is constructed
ParserConstructed(key) == key

\* run_batch_analysis, lines 98-106: the call with the slider values and the
\* first of its three assignments to the config module
run_batch_analysis(bs, mc, rl) ==
    /\ pc = "idle"
    /\ args' = Settings(bs, mc, rl)
    /\ config' = [config EXCEPT !.BATCH_SIZE = bs]
    /\ pc' = "w107"
    /\ UNCHANGED <<faults, apiKey, ui, files, callback, i, step, batch, results, sem,
                   tpc, tres, tresp, temps, ops, progress, sleeps, chunks, others>>

\* line 107: config.MAX_CONCURRENT_REQUESTS = max_concurrent
WriteMaxConcurrent ==
    /\ pc = "w107"
    /\ config' = [config EXCEPT
                    !.MAX_CONCURRENT_REQUESTS = args.MAX_CONCURRENT_REQUESTS]
    /\ pc' = "w108"
    /\ UNCHANGED <<faults, apiKey, ui, files, args, callback, i, step, batch, results, sem,
                   tpc, tres, tresp, temps, ops, progress, sleeps, chunks, others>>

\* line 108: config.RATE_LIMIT_DELAY = rate_limit
WriteRateLimit ==
    /\ pc = "w108"
    /\ config' = [config EXCEPT !.RATE_LIMIT_DELAY = args.RATE_LIMIT_DELAY]
    /\ pc' = "parser"
    /\ UNCHANGED <<faults, apiKey, ui, files, args, callback, i, step, batch, results, sem,
                   tpc, tres, tresp, temps, ops, progress, sleeps, chunks, others>>

\* line 111: parser = ResumeParser().  When the constructor raises, the
\* except clause shows "Analysis failed" and no batch is started.
InitParser ==
    /\ pc = "parser"
    /\ IF ParserConstructed(apiKey)
       THEN pc' = "handler" /\ UNCHANGED ui
       ELSE pc' = "nokey" /\ ui' = [ui EXCEPT !.state = "error"]
    /\ UNCHANGED <<faults, apiKey, files, config, args, callback, i, step, batch, results,
                   sem, tpc, tres, tresp, temps, ops, progress, sleeps, chunks, others>>

\* line 112: output_handler = OutputHandler(), which makes the output
\* directory.  When os.makedirs raises (a file named output is in the way)
\* the except clause shows "Analysis failed" and no batch is started.
InitOutputHandler ==
    /\ pc = "handler"
    /\ \E made \in BOOLEAN :
         /\ ~made => CanFail
         /\ Fails(~made)
         /\ IF made
            THEN pc' = "call" /\ UNCHANGED ui
            ELSE pc' = "nodir" /\ ui' = [ui EXCEPT !.state = "error"]
    /\ UNCHANGED <<apiKey, files, config, args, callback, i, step, batch, results,
                   sem, tpc, tres, tresp, temps, ops, progress, sleeps, chunks, others>>

\* lines 115-121: update_progress is defined and process_batch is called
\* with it; the coroutine runs its lines 105-106
process_batch ==
    /\ pc = "call"
    /\ callback' = TRUE
    /\ EnterBatch
    /\ UNCHANGED <<faults, apiKey, ui, files, config, args, i, step, batch, tpc, tres,
                   tresp, temps, ops, progress, chunks, others>>

\* analyze_resumes_sync of a parser that was constructed:
\* asyncio.run(self.process_batch(files)), no callback; the coroutine runs
\* its lines 105-106
analyze_resumes_sync ==
    /\ pc = "idle"
    /\ ParserConstructed(apiKey)
    /\ args' = config
    /\ callback' = FALSE
    /\ EnterBatch
    /\ UNCHANGED <<faults, apiKey, ui, files, config, i, step, batch, tpc, tres,
                   tresp, temps, ops, progress, chunks, others>>

\* ------------------------------------------------------------- process_file
\* The event loop runs the tasks of a gather one at a time in the order they
\* were created (FIFO ready queue), and no step of process_file suspends: a
\* task can take a step only when every task created before it has finished.
Runnable(f) ==
    /\ pc = "gather"
    /\ tpc[f] \notin {"new", "done"}
    /\ \A g \in Positions : g < f => tpc[g] \in {"new", "done"}

\* the task settles without giving its permit back
TaskExitKeepsPermit(f, res) ==
    /\ tpc' = [tpc EXCEPT ![f] = "done"]
    /\ tres' = [tres EXCEPT ![f] = res]
    /\ sem' = sem

\* leaving "async with semaphore" (Semaphore.release) with the task's result
\* or exception: the task is settled
TaskExit(f, res) ==
    /\ tpc' = [tpc EXCEPT ![f] = "done"]
    /\ tres' = [tres EXCEPT ![f] = res]
    /\ sem' = sem + 1

\* "async with semaphore": Semaphore.acquire when a permit is free
Admit(f) ==
    /\ Runnable(f)
    /\ tpc[f] = "ready"
    /\ sem > 0
    /\ sem' = sem - 1
    /\ tpc' = [tpc EXCEPT ![f] = "validate"]
    /\ UNCHANGED <<faults, apiKey, ui, files, config, args, callback, pc, i, step, batch, results,
                   tres, tresp, temps, ops, progress, chunks, sleeps, others>>

\* the early return of a rejected file leaving without Semaphore.release
ValidateRejectKeepsPermit(f) ==
    /\ Runnable(f)
    /\ tpc[f] = "validate"
    /\ LET v == validate_file(files[f]) IN
       IF v[1]
       THEN /\ tpc' = [tpc EXCEPT ![f] = "save"]
            /\ UNCHANGED <<tres, sem>>
       ELSE /\ tpc' = [tpc EXCEPT ![f] = "done"]
            /\ tres' = [tres EXCEPT
                          ![f] = IF files[f].none
                                 THEN Raised(MsgNoneAttr)
                                 ELSE Returned(ErrorResult(v[2], files[f].name))]
            /\ sem' = sem
    /\ UNCHANGED <<faults, apiKey, ui, files, config, args, callback, pc, i, step, batch, results,
                   tresp, temps, ops, progress, chunks, sleeps, others>>

\* lines 111-113: validate_file, and the early return of the error dict;
\* for None the error dict reads file.name, which raises AttributeError
Validate(f) ==
    /\ Runnable(f)
    /\ tpc[f] = "validate"
    /\ LET v == validate_file(files[f]) IN
       IF v[1]
       THEN /\ tpc' = [tpc EXCEPT ![f] = "save"]
            /\ UNCHANGED <<tres, sem>>
       ELSE IF files[f].none
            THEN TaskExit(f, Raised(MsgNoneAttr))
            ELSE TaskExit(f, Returned(ErrorResult(v[2], files[f].name)))
    /\ UNCHANGED <<faults, apiKey, ui, files, config, args, callback, pc, i, step, batch, results,
                   tresp, temps, ops, progress, chunks, sleeps, others>>

\* line 116: save_uploaded_file.  It can fail before the temporary file
\* exists (makedirs, NamedTemporaryFile) or after (write): created says
\* whether NamedTemporaryFile(delete=False) had made the file.  A failure is
\* raised outside the try/finally, so the task ends with the exception.
Save(f) ==
    /\ Runnable(f)
    /\ tpc[f] = "save"
    /\ ops' = [ops EXCEPT ![f].save = @ + 1]
    /\ \E ok \in BOOLEAN, created \in BOOLEAN :
         /\ ok => created
         /\ ~ok => CanFail
         /\ Fails(~ok)
         /\ temps' = [temps EXCEPT ![f] = IF created THEN @ + 1 ELSE @]
         /\ IF ok
            THEN /\ tpc' = [tpc EXCEPT ![f] = "extract"]
                 /\ UNCHANGED <<tres, sem>>
            ELSE TaskExit(f, Raised(MsgSave))
    /\ UNCHANGED <<apiKey, ui, files, config, args, callback, pc, i, step, batch, results,
                   tresp, progress, chunks, sleeps, others>>

\* extraction whose failure is recorded but does not end the try block: the
\* model call follows all the same
ExtractThenCallAnyway(f) ==
    /\ Runnable(f)
    /\ tpc[f] = "extract"
    /\ ops' = [ops EXCEPT ![f].extract = @ + 1]
    /\ \E ok \in BOOLEAN :
         /\ ok => temps[f] > 0
         /\ (~ok /\ temps[f] > 0) => CanFail
         /\ Fails(~ok /\ temps[f] > 0)
         /\ tpc' = [tpc EXCEPT ![f] = "generate"]
         /\ tres' = IF ok THEN tres
                    ELSE [tres EXCEPT
                            ![f] = Returned(ErrorResult(MsgExtract, files[f].name))]
    /\ UNCHANGED <<apiKey, ui, files, config, args, callback, pc, i, step, batch, results,
                   sem, tresp, temps, progress, chunks, sleeps, others>>

\* analyze_single_resume, line 74: extract_text_from_file; a failure is caught
\* by "except Exception" and becomes the error dict.  Extraction cannot
\* succeed when the temporary file is no longer there (cleanup_temp_files
\* removed it).
Extract(f) ==
    /\ Runnable(f)
    /\ tpc[f] = "extract"
    /\ ops' = [ops EXCEPT ![f].extract = @ + 1]
    /\ \E ok \in BOOLEAN :
         /\ ok => temps[f] > 0
         /\ (~ok /\ temps[f] > 0) => CanFail
         /\ Fails(~ok /\ temps[f] > 0)
         /\ IF ok
            THEN /\ tpc' = [tpc EXCEPT ![f] = "generate"]
                 /\ UNCHANGED tres
            ELSE /\ tpc' = [tpc EXCEPT ![f] = "finish"]
                 /\ tres' = [tres EXCEPT
                               ![f] = Returned(ErrorResult(MsgExtract, files[f].name))]
    /\ UNCHANGED <<apiKey, ui, files, config, args, callback, pc, i, step, batch, results,
                   sem, tresp, temps, progress, chunks, sleeps, others>>

\* the exceptions model.generate_content may raise: a json.JSONDecodeError
\* (caught by the first except clause) or any other
ApiFailures == {"JSONDecodeError", "Exception"}

\* line 80: model.generate_content(prompt).  A failure is caught by the
\* except clauses of lines 91-101 with response unbound and becomes an error
\* dict.
Generate(f) ==
    /\ Runnable(f)
    /\ tpc[f] = "generate"
    /\ ops' = [ops EXCEPT ![f].generate = @ + 1]
    /\ \/ \E text \in Responses :
            /\ text # RespFull => CanFail
            /\ Fails(text # RespFull)
            /\ tresp' = [tresp EXCEPT ![f] = text]
            /\ tpc' = [tpc EXCEPT ![f] = "parse"]
            /\ UNCHANGED tres
       \/ \E e \in ApiFailures :
            /\ CanFail
            /\ Fails(TRUE)
            /\ tpc' = [tpc EXCEPT ![f] = "finish"]
            /\ tres' = [tres EXCEPT
                          ![f] = Returned(IF e = "JSONDecodeError"
                                          THEN ParseErrorNoResponse(files[f].name)
                                          ELSE ErrorResult(MsgApi, files[f].name))]
            /\ UNCHANGED tresp
    /\ UNCHANGED <<apiKey, ui, files, config, args, callback, pc, i, step, batch, results,
                   sem, temps, progress, chunks, sleeps, others>>

\* lines 83-101: json.loads(response.text.strip()), the two metadata writes
\* and the except clauses.  The decoded object is returned with its other
\* keys as the model wrote them, a top-level "error" key included.
ParseResponse(name, text) ==
    LET d == JsonLoads(Strip(text)) IN
    IF ~d.decoded THEN ParseErrorResult(name, text)
    ELSE IF ~d.hasMeta THEN ErrorResult(MsgKeyMeta, name)
    ELSE [SuccessResult(name) EXCEPT
            !.error = d.error,
            !.experience_scores = d.experience_scores,
            !.education = d.education]

Parse(f) ==
    /\ Runnable(f)
    /\ tpc[f] = "parse"
    /\ tres' = [tres EXCEPT
                  ![f] = Returned(ParseResponse(files[f].name, tresp[f]))]
    /\ tpc' = [tpc EXCEPT ![f] = "finish"]
    /\ UNCHANGED <<faults, apiKey, ui, files, config, args, callback, pc, i, step, batch, results,
                   sem, tresp, temps, ops, progress, chunks, sleeps, others>>

\* cleanup_temp_file: os.remove when os.path.exists; an exception of
\* os.remove is printed as a warning and the file stays
cleanup_temp_file(n, removed) == IF n > 0 /\ removed THEN n - 1 ELSE n

\* lines 123-129: result["file_info"] = get_file_info(file), then the finally
\* clause calls cleanup_temp_file, then the semaphore is released
Finish(f) ==
    /\ Runnable(f)
    /\ tpc[f] = "finish"
    /\ \E removed \in BOOLEAN :
         /\ ~removed => (temps[f] > 0 /\ CanFail)
         /\ Fails(~removed)
         /\ temps' = [temps EXCEPT ![f] = cleanup_temp_file(@, removed)]
    /\ TaskExit(f, Returned([tres[f].val EXCEPT
                                !.file_info = get_file_info(files[f])]))
    /\ UNCHANGED <<apiKey, ui, files, config, args, callback, pc, i, step, batch, results,
                   tresp, ops, progress, chunks, sleeps, others>>


\* ------------------------------------------------- process_batch, continued
\* asyncio.gather(*tasks, return_exceptions=True) resumes process_batch when
\* every task of the chunk has settled
GatherSettled == \A k \in 1..Len(batch) : tpc[batch[k]] = "done"

\* lines 142-149, one element of batch_results: an exception becomes an
\* error dict under the name of batch[j], anything else is appended as it is
Converted(f) ==
    IF tres[f].exc
    THEN ErrorResult("Processing error: " \o tres[f].msg, files[f].name)
    ELSE tres[f].val

\* the positions j of the chunk at which "batch[j].name" raises: the result
\* is an exception and batch[j] is None
Unnamed == {k \in 1..Len(batch) : tres[batch[k]].exc /\ files[batch[k]].none}

FirstOf(S) == CHOOSE k \in S : \A m \in S : k <= m

\* lines 139-149: the loop over batch_results.  The AttributeError of
\* batch[j].name is not caught anywhere in process_batch: the coroutine ends
\* with it, after the outcomes before j were appended.
Collect ==
    /\ pc = "gather"
    /\ GatherSettled
    /\ IF Unnamed = {}
       THEN /\ results' = results \o [k \in 1..Len(batch) |-> Converted(batch[k])]
            /\ pc' = "collected"
       ELSE /\ results' = results \o
                   [k \in 1..(FirstOf(Unnamed) - 1) |-> Converted(batch[k])]
            /\ pc' = "raised"
    /\ UNCHANGED <<faults, apiKey, ui, files, config, args, callback, i, step, batch, sem, tpc,
                   tres, tresp, temps, ops, progress, chunks, sleeps, others>>

\* the callback left out for a chunk that a delay follows
UpdateProgressOnlyAfterLastChunk ==
    /\ pc = "collected"
    /\ progress' = IF callback /\ ~MoreToCome(i)
                   THEN Append(progress, ProgressValue(i, Len(batch), Len(files)))
                   ELSE progress
    /\ pc' = "progressed"
    /\ UNCHANGED <<faults, apiKey, ui, files, config, args, callback, i, step, batch, results, sem,
                   tpc, tres, tresp, temps, ops, chunks, sleeps, others>>

\* lines 152-154: the progress callback
UpdateProgress ==
    /\ pc = "collected"
    /\ progress' = IF callback
                   THEN Append(progress, ProgressValue(i, Len(batch), Len(files)))
                   ELSE progress
    /\ pc' = "progressed"
    /\ UNCHANGED <<faults, apiKey, ui, files, config, args, callback, i, step, batch, results, sem,
                   tpc, tres, tresp, temps, ops, chunks, sleeps, others>>

\* the for statement takes the next value of range(0, len(files), step): the
\* next chunk is launched, or the loop ends and results is returned
NextIteration(slept) ==
    IF i + step < Len(files)
    THEN LaunchChunk(i + step, config, slept)
    ELSE /\ pc' = "returned"
         /\ UNCHANGED <<i, batch, tpc, tres, chunks>>

\* line 157 found a further chunk: the run is about to sleep
RateLimit ==
    /\ pc = "progressed"
    /\ MoreToCome(i)
    /\ pc' = "ratelimit"
    /\ UNCHANGED <<faults, apiKey, ui, files, config, args, callback, i, step, batch, results, sem,
                   tpc, tres, tresp, temps, ops, progress, sleeps, chunks, others>>

\* line 158: await asyncio.sleep(config.RATE_LIMIT_DELAY), with the delay
\* the module holds now, which is read after the test of line 157
Sleep ==
    /\ pc = "ratelimit"
    /\ sleeps' = Append(sleeps, config.RATE_LIMIT_DELAY)
    /\ pc' = "delay"
    /\ UNCHANGED <<faults, apiKey, ui, files, config, args, callback, i, step, batch, results, sem,
                   tpc, tres, tresp, temps, ops, progress, chunks, others>>

\* the sleep is over: the loop goes on
Wake ==
    /\ pc = "delay"
    /\ NextIteration(Len(sleeps))
    /\ UNCHANGED <<faults, apiKey, ui, files, config, args, callback, step, results, sem, tresp,
                   temps, ops, progress, sleeps, others>>

\* line 157 found no further chunk: no sleep, the for statement is next
NoSleep ==
    /\ pc = "progressed"
    /\ ~MoreToCome(i)
    /\ pc' = "next"
    /\ UNCHANGED <<faults, apiKey, ui, files, config, args, callback, i, step, batch, results, sem,
                   tpc, tres, tresp, temps, ops, progress, sleeps, chunks, others>>

\* lines 132-139 after a chunk that no sleep followed: the loop goes on (and
\* ends); the slice reads BATCH_SIZE again, after the test of line 157
NextChunk ==
    /\ pc = "next"
    /\ NextIteration(Len(sleeps))
    /\ UNCHANGED <<faults, apiKey, ui, files, config, args, callback, step, results, sem, tresp,
                   temps, ops, progress, sleeps, others>>

\* ------------------------------------------------- report and JSON export
\* "error" in r
HasErrorKey(r) == r.error # Absent

\* "error" not in r
HasNoErrorKey(r) == r.error = Absent

\* a value .get cannot be called on (line 164, lines 187-190)
NotADict(v) == v = "null"

\* lines 163-165: experience_scores.get raises AttributeError when a result
\* without an error key holds experience_scores that is not an object
ScoresRaise(rs) ==
    \E k \in 1..Len(rs) :
        HasNoErrorKey(rs[k]) /\ NotADict(rs[k].experience_scores)

\* OutputHandler.generate_summary_stats: the three counts, the success rate
\* len(successful) / len(results) * 100 as an exact fraction (0 for an empty
\* list), and whether the avg_* keys were added (only when some result has
\* no error key).  raised |-> TRUE: the function raised AttributeError in
\* its loop over the successful results and returned nothing.
generate_summary_stats(rs) ==
    IF ScoresRaise(rs) THEN [NoStats EXCEPT !.raised = TRUE]
    ELSE
    [total_files |-> Len(rs),
     successful_analyses |-> Len(SelectSeq(rs, HasNoErrorKey)),
     failed_analyses |-> Len(SelectSeq(rs, HasErrorKey)),
     success_rate |-> IF Len(rs) > 0
                      THEN [num |-> Len(SelectSeq(rs, HasNoErrorKey)) * 100,
                            den |-> Len(rs)]
                      ELSE [num |-> 0, den |-> 1],
     has_averages |-> Len(SelectSeq(rs, HasNoErrorKey)) > 0,
     raised |-> FALSE]

\* OutputHandler.save_to_json: the metadata block of the exported document
save_to_json(rs) ==
    [total_resumes |-> Len(rs),
     successful_analyses |-> Len(SelectSeq(rs, HasNoErrorKey)),
     failed_analyses |-> Len(SelectSeq(rs, HasErrorKey))]

\* display_analysis_results, lines 198-209: one row per failed result,
\* result.get("file_name", "Unknown") and result.get("error", ...)
ErrorRows(rs) ==
    [k \in 1..Len(SelectSeq(rs, HasErrorKey)) |->
        [File |-> IF SelectSeq(rs, HasErrorKey)[k].file_name = Absent
                  THEN "Unknown"
                  ELSE SelectSeq(rs, HasErrorKey)[k].file_name,
         Error |-> SelectSeq(rs, HasErrorKey)[k].error]]

\* lines 183-192: the summary table of the successful results calls .get on
\* result.get("education", {}) and result.get("experience_scores", {})
SummaryTableRaises(rs) ==
    \E k \in 1..Len(rs) :
        /\ HasNoErrorKey(rs[k])
        /\ NotADict(rs[k].education) \/ NotADict(rs[k].experience_scores)

\* what display_analysis_results puts on the page, in the order of its
\* statements: generate_summary_stats (line 139) may raise before any
\* metric; the four metrics; line 157 compares
\* stats.get("avg_ai_ml_experience") with 0, and the key is there only when
\* some result has no error key: otherwise None > 0 raises TypeError; the
\* summary table of the successes may raise (line 187); then the table of
\* the failed files.  Any of these exceptions is caught by the except clause
\* of run_batch_analysis, which shows "Analysis failed"; the tables not yet
\* rendered are not shown.
Page(rs) ==
    LET stats == generate_summary_stats(rs) IN
    IF stats.raised
    THEN [NoUi EXCEPT !.state = "error"]
    ELSE IF ~stats.has_averages \/ SummaryTableRaises(rs)
    THEN [NoUi EXCEPT !.state = "error", !.metrics = TRUE, !.stats = stats]
    ELSE [NoUi EXCEPT !.state = "report", !.metrics = TRUE, !.stats = stats,
                      !.rows = ErrorRows(rs)]

\* run_batch_analysis after process_batch returned, lines 123-128
display_analysis_results ==
    /\ pc = "returned"
    /\ callback
    /\ ui.state = "none"
    /\ ui' = [Page(results) EXCEPT !.exported = ui.exported, !.export = ui.export]
    /\ UNCHANGED <<faults, apiKey, files, config, args, callback, pc, i, step, batch,
                   results, sem, tpc, tres, tresp, temps, ops, progress,
                   sleeps, chunks, others>>

\* run_batch_analysis when process_batch raised: the except clause shows
\* "Analysis failed: ..." and nothing else
AnalysisFailed ==
    /\ pc = "raised"
    /\ callback
    /\ ui.state = "none"
    /\ ui' = [ui EXCEPT !.state = "error"]
    /\ UNCHANGED <<faults, apiKey, files, config, args, callback, pc, i, step, batch,
                   results, sem, tpc, tres, tresp, temps, ops, progress,
                   sleeps, chunks, others>>

\* main.cleanup_temp_files (the sidebar button of any session, at any time):
\* shutil.rmtree(config.TEMP_DIR) and the directory is made again.  kept is
\* what is left when rmtree raised part way ("Failed to cleanup temp files").
cleanup_temp_files ==
    /\ \E kept \in SUBSET {f \in Positions : temps[f] > 0} :
         /\ kept # {} => CanFail
         /\ Fails(kept # {})
         /\ temps' = [f \in Positions |-> IF f \in kept THEN temps[f] ELSE 0]
    /\ UNCHANGED <<apiKey, ui, files, config, args, callback, pc, i, step, batch,
                   results, sem, tpc, tres, tresp, ops, progress, sleeps,
                   chunks, others>>

\* the "Download JSON Report" button of the report (lines 226-229), which is
\* rendered when nothing before it raised: OutputHandler.save_to_json is
\* called with the list the run returned
ExportJson ==
    /\ pc = "returned"
    /\ ui.state = "report"
    /\ ~ui.exported
    /\ ui' = [ui EXCEPT !.exported = TRUE, !.export = save_to_json(results)]
    /\ UNCHANGED <<faults, apiKey, files, config, args, callback, pc, i, step, batch,
                   results, sem, tpc, tres, tresp, temps, ops, progress,
                   sleeps, chunks, others>>

\* the slider values tried: the batch sizes one, two and the default (one
\* chunk for every list tried), the least and the default concurrency limit,
\* the default delay
BatchSizes == {1, 2, BATCH_SIZE_DEFAULT}
ConcurrencyLimits == {1, MAX_CONCURRENT_REQUESTS_DEFAULT}
Delays == {RATE_LIMIT_DELAY_DEFAULT}

Next ==
    \/ \E bs \in BatchSizes, mc \in ConcurrencyLimits, rl \in Delays :
         run_batch_analysis(bs, mc, rl)
    \/ WriteMaxConcurrent
    \/ WriteRateLimit
    \/ InitParser
    \/ InitOutputHandler
    \/ process_batch
    \/ analyze_resumes_sync
    \/ BeginBatch
    \/ FirstSlice
    \/ \E f \in Positions : Admit(f)
    \/ \E f \in Positions : Validate(f)
    \/ \E f \in Positions : Save(f)
    \/ \E f \in Positions : Extract(f)
    \/ \E f \in Positions : Generate(f)
    \/ \E f \in Positions : Parse(f)
    \/ \E f \in Positions : Finish(f)
    \/ Collect
    \/ UpdateProgress
    \/ RateLimit
    \/ Sleep
    \/ Wake
    \/ NoSleep
    \/ NextChunk
    \/ display_analysis_results
    \/ AnalysisFailed
    \/ ExportJson
    \/ cleanup_temp_files

Spec == Init /\ [][Next]_vars


\* ------------------------------------------------------- other sessions
\* Every session of the application runs in the same process and shares the
\* config module.  Another session may call run_batch_analysis at any time:
\* before this run starts, while it awaits gather or sleep, or (from its own
\* thread) while this run is inside a blocking call.  Its lines 106-108 are
\* three assignments to the module, one after the other; only these writes
\* touch state this run reads.
\* The settings the other session is tried with: every batch size, the least
\* concurrency limit and a delay this run never asks for.
OtherDelays == {RATE_LIMIT_DELAY_DEFAULT + 1}
OtherLimits == {1}

\* line 106 of the other session: config.BATCH_SIZE = batch_size
OtherRunStarts(bs, mc, rl) ==
    /\ others.written = 0
    /\ others.runs < MaxOtherRuns
    /\ config' = [config EXCEPT !.BATCH_SIZE = bs]
    /\ others' = [runs |-> others.runs + 1, written |-> 1,
                  set |-> Settings(bs, mc, rl)]
    /\ UNCHANGED <<faults, apiKey, ui, files, args, callback, pc, i, step, batch, results, sem,
                   tpc, tres, tresp, temps, ops, progress, chunks, sleeps>>

\* line 107 of the other session: config.MAX_CONCURRENT_REQUESTS = ...
OtherRunWritesConcurrency ==
    /\ others.written = 1
    /\ config' = [config EXCEPT
                    !.MAX_CONCURRENT_REQUESTS = others.set.MAX_CONCURRENT_REQUESTS]
    /\ others' = [others EXCEPT !.written = 2]
    /\ UNCHANGED <<faults, apiKey, ui, files, args, callback, pc, i, step, batch, results, sem,
                   tpc, tres, tresp, temps, ops, progress, chunks, sleeps>>

\* line 108 of the other session: config.RATE_LIMIT_DELAY = rate_limit
OtherRunWritesDelay ==
    /\ others.written = 2
    /\ config' = [config EXCEPT !.RATE_LIMIT_DELAY = others.set.RATE_LIMIT_DELAY]
    /\ others' = [others EXCEPT !.written = 0, !.set = DefaultConfig]
    /\ UNCHANGED <<faults, apiKey, ui, files, args, callback, pc, i, step, batch, results, sem,
                   tpc, tres, tresp, temps, ops, progress, chunks, sleeps>>

NextShared ==
    \/ Next
    \/ \E bs \in BatchSizes, mc \in OtherLimits, rl \in OtherDelays :
         OtherRunStarts(bs, mc, rl)
    \/ OtherRunWritesConcurrency
    \/ OtherRunWritesDelay

SpecShared == Init /\ [][NextShared]_vars


\* =================================================================== claims
\* the positions at which process_batch has not been entered: no call yet,
\* run_batch_analysis before its line 121, or ended by a constructor
BeforeBatch == {"idle", "w107", "w108", "parser", "handler", "call", "nokey", "nodir"}

\* the file name an outcome carries: the top-level file_name of an error
\* dict, analysis_metadata.file_name of a parsed record
OutcomeName(o) ==
    IF o.meta_file_name # Absent THEN o.meta_file_name ELSE o.file_name

IsFailure(o) == o.error # Absent

InPipeline ==
    {f \in Positions :
        tpc[f] \in {"validate", "save", "extract", "generate", "parse", "finish"}}

\* ceil(n / d)
CeilDiv(n, d) == (n + d - 1) \div d

\* C1: the list process_batch returns has one outcome per input file, and
\* outcome k carries the name of files[k], whatever the items did.
C1_OneOutcomePerFileInOrder ==
    pc = "returned" =>
        /\ Len(results) = Len(files)
        /\ \A k \in 1..Len(results) : OutcomeName(results[k]) = files[k].name

\* a returned run of three files in which a success sits between two
\* failures of different files
C1_Witness ==
    /\ pc = "returned"
    /\ Len(files) = 3
    /\ IsFailure(results[1]) /\ ~IsFailure(results[2]) /\ IsFailure(results[3])
    /\ files[1].name # files[2].name

\* C2: the pipelines admitted and not finished never exceed the run's
\* max_concurrent, and the semaphore of the run accounts for each of them
\* (its value plus the pipelines in flight is max_concurrent in every chunk);
\* with max_concurrent = 1 at most one pipeline is between admission and exit.
C2_InFlightBounded ==
    pc \notin BeforeBatch =>
        /\ Cardinality(InPipeline) <= args.MAX_CONCURRENT_REQUESTS
        /\ sem >= 0
        /\ sem + Cardinality(InPipeline) = args.MAX_CONCURRENT_REQUESTS

\* max_concurrent = 1: the second pipeline of a chunk is in its model call
\* after the first has given its permit back, a third is still waiting
C2_Witness ==
    /\ args.MAX_CONCURRENT_REQUESTS = 1
    /\ sem = 0
    /\ \E f, g, h \in Positions :
          tpc[f] = "done" /\ tpc[g] = "generate" /\ tpc[h] = "ready"

\* C3: a task that ended with an exception gets a Failure outcome under its
\* own file's name, every task that returned gets exactly what it returned,
\* once a chunk has been collected every item of it has its outcome in the
\* list, and a run that returns has an outcome for every file.
Collected == {"collected", "progressed", "ratelimit", "delay", "next",
              "returned", "raised"}

C5_ChunksSequential ==
    \A c \in 1..Len(chunks) :
        /\ chunks[c].slept = c - 1
        /\ \A b \in 1..(c - 1) : \A k \in 1..Len(chunks[b].items) :
              /\ tpc[chunks[b].items[k]] = "done"
              /\ chunks[b].items[k] <= Len(results)
        /\ (c = Len(chunks) /\ pc = "gather") => Len(sleeps) = c - 1

\* the third chunk is running after two sleeps
C5_Witness ==
    /\ Len(chunks) = 3
    /\ Len(sleeps) = 2
    /\ \E f \in Positions : tpc[f] = "extract"

\* C6: the settings of a run are fixed while it runs: it cuts every chunk
\* with the batch size it was started with and returns one outcome per file,
\* also when another run is started while it is under way.
C6_SettingsFixedForRun ==
    /\ \A c \in 1..Len(chunks) :
          Len(chunks[c].items) = Min(args.BATCH_SIZE, Len(files) - chunks[c].at)
    /\ \A k \in 1..Len(sleeps) : sleeps[k] = args.RATE_LIMIT_DELAY
    /\ pc = "returned" => Len(results) = Len(files)

\* C7: an item with an extension other than .pdf/.docx, or larger than the
\* maximum, is never saved, extracted or sent to the model, and its outcome
\* is the validation error under its name.
BadExtension(file) == ~file.none /\ SplitExtLower(file.name) \notin {".pdf", ".docx"}
Oversized(file) == ~file.none /\ file.size > 10 * 1024 * 1024

C7_InvalidNeverProcessed ==
    \A f \in Positions :
        (BadExtension(files[f]) \/ Oversized(files[f])) =>
            /\ ops[f] = NoOps
            /\ temps[f] = 0
            /\ tpc[f] \in {"new", "ready", "validate", "done"}
            /\ tpc[f] = "done" =>
                  /\ ~tres[f].exc
                  /\ tres[f].val.error \in {MsgUnsupported, MsgTooLarge}
                  /\ tres[f].val.file_name = files[f].name
            /\ (pc = "returned" /\ f <= Len(results)) =>
                  /\ results[f].error \in {MsgUnsupported, MsgTooLarge}
                  /\ results[f].file_name = files[f].name

\* a returned run with an oversized DOCX and a text file, next to a file
\* that did reach the model
C7_Witness ==
    /\ pc = "returned"
    /\ \E f, g, h \in Positions :
          /\ Oversized(files[f]) /\ results[f].error = MsgTooLarge
          /\ BadExtension(files[g]) /\ results[g].error = MsgUnsupported
          /\ ops[h].generate = 1

\* C8: the progress values never decrease, lie in [0, 100], and the last one
\* of a run that had a chunk is 100.
C8_ProgressMonotone ==
    /\ \A k \in 1..Len(progress) :
          /\ progress[k].den = Len(files)
          /\ 0 <= progress[k].num
          /\ progress[k].num <= 100 * progress[k].den
    /\ \A k \in 1..(Len(progress) - 1) : progress[k].num <= progress[k + 1].num
    /\ (pc = "returned" /\ callback /\ Len(files) > 0) =>
          /\ Len(progress) > 0
          /\ progress[Len(progress)].num = 100 * Len(files)

\* three callbacks, the last one 100
C8_Witness ==
    /\ pc = "returned"
    /\ Len(progress) = 3
    /\ progress[1].num < progress[2].num
    /\ progress[3].num = 100 * progress[3].den

\* C9: one callback per chunk, ceil(N / batch_size) in all; chunk k is the
\* next batch_size files (fewer in the last chunk) and the value after it is
\* min(100, processed / N * 100) with processed the files of chunks 1..k.
C9_ProgressPerChunk ==
    callback =>
        /\ \A k \in 1..Len(progress) :
              LET processed == Min(k * args.BATCH_SIZE, Len(files)) IN
              /\ chunks[k].at = (k - 1) * args.BATCH_SIZE
              /\ Len(chunks[k].items) = processed - chunks[k].at
              /\ progress[k].num = Min(100 * Len(files), processed * 100)
              /\ progress[k].den = Len(files)
        /\ Len(progress) <= Len(chunks)
        /\ pc = "returned" =>
              /\ Len(progress) = CeilDiv(Len(files), args.BATCH_SIZE)
              /\ Len(chunks) = Len(progress)

\* three files in chunks of two: two callbacks, 200/3 and 100
C9_Witness ==
    /\ pc = "returned"
    /\ callback
    /\ Len(files) = 3
    /\ args.BATCH_SIZE = 2
    /\ progress = <<[num |-> 200, den |-> 3], [num |-> 300, den |-> 3]>>

\* C10: a run of C chunks sleeps C - 1 times: once after every chunk but the
\* last, never after the last, and not at all when there is one chunk.
C10_SleepsBetweenChunks ==
    /\ pc = "delay" => i + Len(batch) < Len(files)
    /\ Len(sleeps) <= Len(chunks)
    /\ (pc = "returned" /\ Len(files) > 0) =>
          /\ Len(sleeps) = CeilDiv(Len(files), args.BATCH_SIZE) - 1
          /\ Len(sleeps) = Len(chunks) - 1

\* three chunks, two sleeps
C10_Witness ==
    /\ pc = "returned"
    /\ Len(chunks) = 3
    /\ Len(sleeps) = 2

\* C11: with an empty input sequence process_batch returns an empty outcome
\* list, never invokes the progress callback, never sleeps, starts no chunk
\* and so makes no external call.
C11_EmptyInput ==
    Len(files) = 0 =>
        /\ pc \in BeforeBatch \cup {"range", "returned"}
        /\ results = <<>>
        /\ progress = <<>>
        /\ sleeps = <<>>
        /\ chunks = <<>>
        /\ batch = <<>>

\* process_batch has returned from a run on the empty list, with a callback
C11_Witness ==
    /\ Len(files) = 0
    /\ pc = "returned"
    /\ callback
    /\ results = <<>>

\* C12: every outcome a batch run collects is exactly one of Success (a
\* parsed record carrying the metadata the parser stamped) and Failure (a
\* dict with an "error" key): never both, never neither.
C12_SuccessXorFailure ==
    \A k \in 1..Len(results) :
        (results[k].meta_file_name # Absent) # (results[k].error # Absent)

\* the positions whose model call answered with text that is not valid JSON
NotJson ==
    {f \in Positions :
        /\ tpc[f] \in {"finish", "done"}
        /\ tresp[f] # Absent
        /\ ~JsonLoads(Strip(tresp[f])).decoded}

\* C13: when the model's response is not valid JSON, the outcome of the item
\* is the parse-error Failure: it carries the item's file name and the
\* response text exactly as the model returned it, surrounding whitespace
\* included, in the task's result and in the list the batch returns.
C13_ParseErrorKeepsRawText ==
    \A f \in NotJson :
        /\ ~tres[f].exc
        /\ tres[f].val.error = MsgParse
        /\ tres[f].val.file_name = files[f].name
        /\ tres[f].val.raw_response = tresp[f]
        /\ tres[f].val.meta_file_name = Absent
        /\ f <= Len(results) =>
              /\ results[f].error = MsgParse
              /\ results[f].file_name = files[f].name
              /\ results[f].raw_response = tresp[f]

\* a returned list whose second outcome is the parse error of the second file
C13_Witness ==
    /\ pc = "returned"
    /\ Len(results) >= 2
    /\ 2 \in NotJson
    /\ results[2].raw_response = RespGarbage
    /\ results[2].raw_response # Strip(RespGarbage)
    /\ results[2].file_name = files[2].name

\* the positions whose model call answered with text that decodes as JSON
DecodedJson ==
    {f \in Positions :
        /\ tpc[f] \in {"finish", "done"}
        /\ tresp[f] # Absent
        /\ JsonLoads(Strip(tresp[f])).decoded}

\* C14: every response that decodes as JSON yields a Success outcome, the
\* parsed record with the metadata the parser stamps, also when the decoded
\* object lacks sub-fields such as the analysis_metadata block.
C14_DecodedIsSuccess ==
    \A f \in DecodedJson :
        /\ ~tres[f].exc
        /\ tres[f].val.meta_file_name = files[f].name

\* C15: in every outcome that is a parsed record, the metadata file name is
\* the name of the input file that produced it, whatever file name the model
\* wrote in its response.
C15_MetadataNameIsInputName ==
    /\ \A f \in Positions :
          (tpc[f] \in {"finish", "done"} /\ ~tres[f].exc
             /\ tres[f].val.meta_file_name # Absent)
          => tres[f].val.meta_file_name = files[f].name
    /\ \A k \in 1..Len(results) :
          results[k].meta_file_name # Absent
          => results[k].meta_file_name = files[k].name

\* the model reported "model.pdf" for the upload "cv.pdf"; the returned
\* record says "cv.pdf"
C15_Witness ==
    /\ pc = "returned"
    /\ Len(results) >= 1
    /\ tresp[1] = RespFull
    /\ JsonLoads(Strip(tresp[1])).meta = "model.pdf"
    /\ files[1].name = "cv.pdf"
    /\ results[1].meta_file_name = "cv.pdf"

\* C16: every temporary file created for an item is removed on every exit
\* path of the item's pipeline, so no temporary file of a settled task
\* exists, and none exists when process_batch has returned.
C16_TempFilesRemoved ==
    /\ \A f \in Positions : tpc[f] = "done" => temps[f] = 0
    /\ pc = "returned" => \A f \in Positions : temps[f] = 0

\* C17: for every non-empty outcome list a batch run returned and handed to
\* display_analysis_results, a list of failures only included, the report is
\* displayed and its table of failed files shows, for each failed outcome,
\* the name of its file and its error message.
C17_ReportShowsFailures ==
    (pc = "returned" /\ ui.metrics /\ Len(results) > 0) =>
        /\ ui.state = "report"
        /\ \A k \in 1..Len(results) :
              HasErrorKey(results[k]) =>
                  \E r \in 1..Len(ui.rows) :
                      /\ ui.rows[r].File = files[k].name
                      /\ ui.rows[r].Error = results[k].error

\* C18: for every outcome list a run returned and the page was given, the
\* summary statistics are produced and report total = number of outcomes and
\* successful + failed = total, with the success rate successful / total as
\* a percentage (0 for an empty list, no division by zero), and the metadata
\* of the JSON export reports the same three counts.
C18_CountsAndRate ==
    /\ (pc = "returned" /\ ui.state # "none") =>
          /\ ui.metrics
          /\ ui.stats.total_files = Len(results)
          /\ ui.stats.successful_analyses + ui.stats.failed_analyses
                = ui.stats.total_files
          /\ ui.stats.failed_analyses
                = Cardinality({k \in 1..Len(results) : results[k].error # Absent})
          /\ ui.stats.success_rate.den > 0
          /\ ui.stats.success_rate.num * ui.stats.total_files
                = ui.stats.successful_analyses * 100 * ui.stats.success_rate.den
          /\ ui.stats.total_files = 0 => ui.stats.success_rate.num = 0
    /\ ui.exported =>
          /\ ui.export.total_resumes = Len(results)
          /\ ui.export.successful_analyses + ui.export.failed_analyses
                = ui.export.total_resumes
          /\ ui.export.failed_analyses
                = Cardinality({k \in 1..Len(results) : results[k].error # Absent})
          /\ ui.export.total_resumes = ui.stats.total_files
          /\ ui.export.successful_analyses = ui.stats.successful_analyses
          /\ ui.export.failed_analyses = ui.stats.failed_analyses

\* C19: when the API key is absent, constructing the parser fails before any
\* batch starts: no chunk is launched, no file is validated, no temporary
\* file is written and the model is never called.
C19_NoKeyNoBatch ==
    ~apiKey =>
        /\ pc \in {"idle", "w107", "w108", "parser", "nokey"}
        /\ chunks = <<>>
        /\ results = <<>>
        /\ progress = <<>>
        /\ \A f \in Positions :
              /\ tpc[f] = "new"
              /\ ops[f] = NoOps
              /\ temps[f] = 0
              /\ tresp[f] = Absent

\* run_batch_analysis was called with three uploads and no key: the
\* constructor raised and the page shows the failure
C19_Witness ==
    /\ ~apiKey
    /\ pc = "nokey"
    /\ ui.state = "error"
    /\ Len(files) = 3

\* C20: the items of a chunk run concurrently.  A pipeline that has reached
\* text extraction or the model call suspends there, so while it waits and a
\* permit is free (max_concurrent at least two), another task of the chunk
\* that is still waiting for admission can enter its own pipeline: two
\* pipelines are then in flight at once.
C20_PipelinesOverlap ==
    \A f, g \in Positions :
        (/\ pc = "gather"
         /\ f # g
         /\ tpc[f] \in {"extract", "generate"}
         /\ tpc[g] = "ready"
         /\ sem > 0)
        => ENABLED Admit(g)

\* C21: the model is called at most once per item in a run (no retry), and
\* only for an item that passed validation, was saved and whose text
\* extraction succeeded.  An item whose extraction failed ends as the
\* Failure that carries the extraction error, and no model call is made for
\* it.
C21_OneModelCallAfterExtraction ==
    \A f \in Positions :
        /\ ops[f].generate <= 1
        /\ ops[f].extract <= 1
        /\ ops[f].generate > 0 =>
              /\ validate_file(files[f])[1]
              /\ ops[f].save = 1
              /\ ops[f].extract = 1
              /\ tres[f].val.error # MsgExtract
        /\ (tpc[f] \in {"finish", "done"} /\ ops[f].extract = 1
               /\ ops[f].generate = 0) =>
              /\ ~tres[f].exc
              /\ tres[f].val.error = MsgExtract
              /\ tres[f].val.file_name = files[f].name
              /\ tresp[f] = Absent

\* a returned run in which extraction failed for the first file (no model
\* call) and the second file had its one model call
C21_Witness ==
    /\ pc = "returned"
    /\ Len(results) >= 2
    /\ ops[1].extract = 1
    /\ ops[1].generate = 0
    /\ results[1].error = MsgExtract
    /\ ops[2].generate = 1

\* C22: for every chunk, the progress callback of the chunk is invoked after
\* all the outcomes of the chunk were appended to the result list and before
\* the delay that follows the chunk begins: while the chunk is gathered or
\* converted its callback has not happened, once it has happened the list
\* holds the whole chunk, and every delay begun has its chunk's callback
\* behind it.
C22_ProgressAfterAppendBeforeDelay ==
    (callback /\ pc \notin BeforeBatch) =>
        /\ pc \in {"gather", "collected"} => Len(progress) = Len(chunks) - 1
        /\ pc = "collected" => Len(results) = i + Len(batch)
        /\ (Len(chunks) > 0 /\ Len(progress) = Len(chunks)) =>
              Len(results) = i + Len(batch)
        /\ pc \in {"progressed", "delay"} => Len(progress) = Len(chunks)
        /\ Len(sleeps) <= Len(progress)
        /\ pc = "delay" => Len(sleeps) = Len(progress)

\* the run sleeps after its first chunk of two: both outcomes are in the
\* list and the callback of the chunk has been made
C22_Witness ==
    /\ callback
    /\ pc = "delay"
    /\ Len(chunks) = 1
    /\ Len(batch) = 2
    /\ Len(results) = 2
    /\ Len(progress) = 1
    /\ Len(sleeps) = 1

\* some task of the current chunk can take its next step
SomeTaskCanStep ==
    \E f \in Positions :
        \/ ENABLED Admit(f)
        \/ ENABLED Validate(f)
        \/ ENABLED Save(f)
        \/ ENABLED Extract(f)
        \/ ENABLED Generate(f)
        \/ ENABLED Parse(f)
        \/ ENABLED Finish(f)

\* C23: every permit a task took is given back on every exit path of the
\* task (validation rejection, success, failure, exception): a settled task
\* holds none, whenever a chunk has settled all max_concurrent permits are
\* free again, and a chunk that has not settled always has a task that can
\* go on, so no chunk waits for admission forever.
C23_PermitsReturned ==
    pc \notin BeforeBatch =>
        /\ sem <= args.MAX_CONCURRENT_REQUESTS
        /\ (pc # "gather" \/ GatherSettled) => sem = args.MAX_CONCURRENT_REQUESTS
        /\ (\A f \in Positions : tpc[f] \in {"new", "ready", "done"})
              => sem = args.MAX_CONCURRENT_REQUESTS
        /\ (pc = "gather" /\ ~GatherSettled) => SomeTaskCanStep

\* one permit in all: the first chunk ended with a rejected file and a task
\* that raised, and the task of the second chunk was admitted after them
C23_Witness ==
    /\ args.MAX_CONCURRENT_REQUESTS = 1
    /\ Len(files) = 3
    /\ Len(chunks) = 2
    /\ ~tres[1].exc
    /\ tres[1].val.error = MsgUnsupported
    /\ tres[2].exc
    /\ tpc[3] = "generate"
    /\ sem = 0

====
